---- MODULE Spec2Model ----
(***************************************************************************)
(* Model of the eFarmersHub data-analysis scripts.                         *)
(*                                                                         *)
(*   script/etl_script.py : extract_* (read one table through a scoped    *)
(*                          connection) and transform_* (the six          *)
(*                          normalizers)                                   *)
(*   script/analysis.py   : read_files (multi-file loader) and            *)
(*                          detect_anomaly (z-score filter)                *)
(*                                                                         *)
(* A data frame is a sequence of rows; a row is a function from column     *)
(* names to cell values, so DOMAIN row is the row's column set.            *)
(***************************************************************************)
EXTENDS Integers, Sequences, FiniteSets, TLC

VARIABLES
    raw,        \* etl: category -> the batch handed to its normalizer
    canon,      \* etl: category -> the frame its normalizer returned
    raised,     \* etl: category -> exception the normalizer raised, or "none"
    pc,         \* extract: where the running call stands, "idle" between calls
    fn,         \* extract: the function that is running or ran last
    conns,      \* extract: the connections that are open
    df_local,   \* extract: the local df of the running call, or Unbound
    log,        \* extract: the entries written to ./log
    handlers,   \* extract: whether the root logger has its file handler
    failure,    \* extract: what failed in the call: "none", "connect", "read"
    outcome,    \* extract: how the last call ended
    calls,      \* extract: calls made so far
    frame,      \* anomaly: the frame detect_anomaly is given
    extras,     \* anomaly: rows added to the frame's base
    detected,   \* anomaly: whether detect_anomaly has returned
    anomaly,    \* anomaly: the frame detect_anomaly returned
    files,      \* loader: the spreadsheet files of the directory
    unread,     \* loader: files path.iterdir() has not yielded yet
    order,      \* loader: files in the order they were read
    loaded,     \* loader: the local df of read_files
    lpc         \* loader: "setup", "loop" or "done"

etl_vars == <<raw, canon, raised>>
extract_vars == <<pc, fn, conns, df_local, log, handlers, failure, outcome, calls>>
anomaly_vars == <<frame, extras, detected, anomaly>>
loader_vars == <<files, unread, order, loaded, lpc>>
vars == <<etl_vars, extract_vars, anomaly_vars, loader_vars>>

(***************************************************************************)
(* Cell values.  pandas floats that are not finite are tokens.             *)
(***************************************************************************)
NaN == "NaN"
Inf == "inf"
NegInf == "-inf"

\* float / float of pandas (etl_script.py line 90): IEEE division, which
\* never raises.  The finite dividends used below are multiples of the
\* divisors, so the finite quotient is exact.
FloatDiv(a, b) ==
    IF b = 0
    THEN IF a = 0 THEN NaN ELSE IF a > 0 THEN Inf ELSE NegInf
    ELSE a \div b

\* The strings that occur in sort columns, in Python's string order.  "10"
\* sorts before "9": user_id is compared as text after astype(str).
Lexicon == <<"10", "9", "BD", "F1", "F2", "KE", "U", "V">>

StrRank(s) == CHOOSE i \in 1..Len(Lexicon) : Lexicon[i] = s

\* astype(str) on the integer user ids of the model
AsStr(n) == IF n = 9 THEN "9" ELSE "10"

\* the sort columns that hold text; the others hold integers
TextColumns == {"country", "franchisee", "user_id"}

\* a < b for two cells of sort column c
CellLess(c, a, b) ==
    IF c \in TextColumns THEN StrRank(a) < StrRank(b) ELSE a < b

(***************************************************************************)
(* Data-frame primitives                                                   *)
(***************************************************************************)
\* df.rename(columns=m): columns named in m are renamed, the rest are kept;
\* keys of m that are no column are ignored.
Rename(row, m) ==
    LET new(c) == IF c \in DOMAIN m THEN m[c] ELSE c
    IN  [d \in {new(c) : c \in DOMAIN row} |->
            row[CHOOSE c \in DOMAIN row : new(c) = d]]

RenameAll(df, m) == [i \in 1..Len(df) |-> Rename(df[i], m)]

\* df[col] = v in one row: the column is added, or replaced if the row has it
Assign(row, col, v) == (col :> v) @@ row

\* row a sorts strictly before row b on the column list by
RECURSIVE RowLess(_, _, _)
RowLess(a, b, by) ==
    IF by = <<>> THEN FALSE
    ELSE LET c == Head(by)
         IN  IF a[c] = b[c] THEN RowLess(a, b, Tail(by))
             ELSE CellLess(c, a[c], b[c])

\* stable insertion of row r into the sorted frame s
RECURSIVE InsertSorted(_, _, _)
InsertSorted(s, r, by) ==
    IF s = <<>> THEN <<r>>
    ELSE IF RowLess(r, Head(s), by) THEN <<r>> \o s
         ELSE <<Head(s)>> \o InsertSorted(Tail(s), r, by)

\* df.sort_values(by): ascending, several columns, ties keep input order
RECURSIVE sort_values(_, _)
sort_values(df, by) ==
    IF df = <<>> THEN <<>>
    ELSE LET n == Len(df)
         IN  InsertSorted(sort_values(SubSeq(df, 1, n - 1), by), df[n], by)

SameKey(a, b, subset) == \A c \in subset : a[c] = b[c]

\* df.drop_duplicates(subset, keep="last"): a row stays iff no later row has
\* the same values in the subset columns; order is kept.
drop_duplicates_last(df, subset) ==
    SelectSeq([i \in 1..Len(df) |-> [pos |-> i, row |-> df[i]]],
              LAMBDA e : \A j \in (e.pos + 1)..Len(df) :
                            ~SameKey(df[j], e.row, subset))

Rows(entries) == [i \in 1..Len(entries) |-> entries[i].row]

SortColumns == <<"country", "franchisee", "user_id", "transaction_id", "version">>

(***************************************************************************)
(* Inputs of the normalizers                                               *)
(***************************************************************************)
MaxRecords == 2   \* records handed to the normalizers in one run, in total

Categories ==
    {"sale", "purchase", "machine_rent", "processing", "expense", "machine_purchase"}

\* no category has been handed a batch
NoBatches ==
    /\ raw = [c \in Categories |-> <<>>]
    /\ canon = [c \in Categories |-> <<>>]
    /\ raised = [c \in Categories |-> "none"]

\* detect_anomaly has not been given a frame
NoFrame ==
    /\ frame = <<>>
    /\ extras = 0
    /\ detected = FALSE
    /\ anomaly = <<>>

\* read_files has not been called and the directory is empty
NoDirectory ==
    /\ files = <<>>
    /\ unread = {}
    /\ order = <<>>
    /\ loaded = [columns |-> <<>>, rows |-> <<>>]
    /\ lpc = "setup"

\* (country_name, parent_name, user_id) of a record; they differ from the
\* first one in exactly one column each
Owners == {<<"BD", "F1", 9>>, <<"KE", "F1", 9>>, <<"BD", "F2", 9>>, <<"BD", "F1", 10>>}
TransactionIds == {1, 2}
ProductIds == {1, 2}
Versions == {1, 2}
\* (amount in local currency, currency_exchange_rate)
Money == {<<10, 2>>, <<10, 0>>, <<0, 0>>}
\* transaction_date as text; only the first has the format %Y/%m/%d
GoodDate == "2021/03/01"
BadDate == "01-03-2021"
Dates == {GoodDate, BadDate}

CommonColumns(o, t, v, m, d) ==
    [country_name |-> o[1], parent_name |-> o[2], user_id |-> o[3],
     transaction_id |-> t, version |-> v, transaction_date |-> d,
     currency_exchange_rate |-> m[2]]

\* One row of the table a category is read from, with the table's own column
\* names (the columns lists of the extract_* functions).  The columns kept are
\* the ones the sort, the dedup keys and the derived measures read; the
\* descriptive columns (names, region, unit_type, ...) and quantity,
\* unit_price and product_amount, which are only renamed or coerced, are not
\* carried.
SourceRows(cat) ==
    {CommonColumns(o, t, v, m, d) @@
        (CASE cat = "sale" ->
                [product_id |-> p, paid_amount |-> m[1], cogs_amount |-> 4]
           [] cat = "processing" ->
                [product_id |-> p, production_cost |-> m[1]]
           [] cat = "expense" ->
                [expense_type |-> p, expense_category |-> "Operational",
                 total_amount |-> m[1]]
           [] OTHER ->
                [product_id |-> p, paid_amount |-> m[1]]) :
        o \in Owners, t \in TransactionIds, p \in ProductIds,
        v \in Versions, m \in Money, d \in Dates}

Batches(cat, n) == UNION {[1..k -> SourceRows(cat)] : k \in 1..n}

(***************************************************************************)
(* The six normalizers                                                     *)
(***************************************************************************)
Returned(df) == [raised |-> "none", rows |-> df]
Raise(e) == [raised |-> e, rows |-> <<>>]

\* pd.to_datetime(col, format="%Y/%m/%d") raises when any value does not
\* have the format
DatesParse(df) == \A i \in 1..Len(df) : df[i].date_of_transaction = GoodDate

\* the parsed value of a date in the format (applied after DatesParse holds)
to_datetime(s) == <<2021, 3, 1>>

\* the steps every normalizer takes between the rename and the derived
\* measures: parse the date, user_id to text, paid_amount_usd
CommonSteps(df) ==
    LET d1 == [i \in 1..Len(df) |->
                     Assign(df[i], "date_of_transaction", to_datetime(df[i].date_of_transaction))]
        d2 == [i \in 1..Len(d1) |->
                     Assign(d1[i], "user_id", AsStr(d1[i].user_id))]
    IN  [i \in 1..Len(d2) |->
                     Assign(d2[i], "paid_amount_usd", FloatDiv(d2[i].paid_amount, d2[i].currency_rate))]

\* the closing sort_values(...).drop_duplicates(subset=..., keep="last")
KeepLatest(df, subset) ==
    Rows(drop_duplicates_last(sort_values(df, SortColumns), subset))

SaleRename ==
    [country_name |-> "country", business_category |-> "transaction_type",
     category |-> "product_category", customer_mobile |-> "phone_number",
     user_name |-> "user", user_region |-> "region", parent_name |-> "franchisee",
     currency_exchange_rate |-> "currency_rate", cogs_amount |-> "cogs",
     transaction_date |-> "date_of_transaction"]

transform_sale(df) ==
    LET d0 == RenameAll(df, SaleRename)
    IN  IF ~DatesParse(d0) THEN Raise("ValueError")
        ELSE
        LET d1 == CommonSteps(d0)
            d2 == [i \in 1..Len(d1) |->
                     Assign(d1[i], "revenue", d1[i].paid_amount)]
            d3 == [i \in 1..Len(d2) |->
                     Assign(d2[i], "revenue_usd", d2[i].paid_amount_usd)]
            d4 == [i \in 1..Len(d3) |->
                     Assign(d3[i], "profit", d3[i].revenue - d3[i].cogs)]
            d5 == [i \in 1..Len(d4) |->
                     Assign(d4[i], "profit_usd", FloatDiv(d4[i].profit, d4[i].currency_rate))]
            d6 == [i \in 1..Len(d5) |->
                     Assign(d5[i], "transaction_type_level_2", "Sale")]
        IN  Returned(KeepLatest(d6, {"transaction_id", "product_id"}))

PurchaseRename ==
    [country_name |-> "country", business_category |-> "transaction_type",
     category |-> "product_category", supplier_id |-> "customer_id",
     supplier_name |-> "customer_name", supplier_mobile |-> "phone_number",
     user_name |-> "user", user_region |-> "region", parent_name |-> "franchisee",
     currency_exchange_rate |-> "currency_rate",
     transaction_date |-> "date_of_transaction"]

transform_purchase(df) ==
    LET d0 == RenameAll(df, PurchaseRename)
    IN  IF ~DatesParse(d0) THEN Raise("ValueError")
        ELSE
        LET d1 == CommonSteps(d0)
            d2 == [i \in 1..Len(d1) |->
                     Assign(d1[i], "purchase", d1[i].paid_amount)]
            d3 == [i \in 1..Len(d2) |->
                     Assign(d2[i], "purchase_usd", d2[i].paid_amount_usd)]
            d4 == [i \in 1..Len(d3) |->
                     Assign(d3[i], "transaction_type_level_2", "Purchase")]
        IN  Returned(KeepLatest(d4, {"transaction_id", "product_id"}))

MachineRentRename ==
    [country_name |-> "country", business_category |-> "transaction_type",
     category |-> "product_category", customer_mobile |-> "phone_number",
     user_name |-> "user", user_region |-> "region", parent_name |-> "franchisee",
     currency_exchange_rate |-> "currency_rate", amount |-> "product_amount",
     transaction_date |-> "date_of_transaction"]

\* line 233 assigns the column named  market_type'  (with the quote)
transform_machine_rent(df) ==
    LET d0 == RenameAll(df, MachineRentRename)
    IN  IF ~DatesParse(d0) THEN Raise("ValueError")
        ELSE
        LET d1 == CommonSteps(d0)
            d2 == [i \in 1..Len(d1) |->
                     Assign(d1[i], "revenue", d1[i].paid_amount)]
            d3 == [i \in 1..Len(d2) |->
                     Assign(d2[i], "revenue_usd", d2[i].paid_amount_usd)]
            d4 == [i \in 1..Len(d3) |->
                     Assign(d3[i], "profit", d3[i].paid_amount)]
            d5 == [i \in 1..Len(d4) |->
                     Assign(d4[i], "profit_usd", d4[i].paid_amount_usd)]
            d6 == [i \in 1..Len(d5) |->
                     Assign(d5[i], "market_type'", "Farmer")]
            d7 == [i \in 1..Len(d6) |->
                     Assign(d6[i], "transaction_type_level_2", "Machinery Rental")]
        IN  Returned(KeepLatest(d7, {"transaction_id", "product_id"}))

ProcessingRename ==
    [country_name |-> "country", business_category |-> "transaction_type",
     category |-> "product_category", user_name |-> "user",
     user_region |-> "region", parent_name |-> "franchisee",
     currency_exchange_rate |-> "currency_rate",
     production_cost |-> "paid_amount", amount |-> "product_amount",
     transaction_date |-> "date_of_transaction"]

transform_processing(df) ==
    LET d0 == RenameAll(df, ProcessingRename)
    IN  IF ~DatesParse(d0) THEN Raise("ValueError")
        ELSE
        LET d1 == CommonSteps(d0)
            d2 == [i \in 1..Len(d1) |->
                     Assign(d1[i], "processing", d1[i].paid_amount)]
            d3 == [i \in 1..Len(d2) |->
                     Assign(d2[i], "processing_usd", d2[i].paid_amount_usd)]
            d4 == [i \in 1..Len(d3) |->
                     Assign(d3[i], "market_type", "Farmers' Hub")]
            d5 == [i \in 1..Len(d4) |->
                     Assign(d4[i], "transaction_type_level_2", "Processing")]
        IN  Returned(KeepLatest(d5, {"transaction_id", "product_id"}))

ExpenseRename ==
    [country_name |-> "country", business_category |-> "transaction_type",
     expense_category |-> "transaction_type_level_2", expense_type |-> "product",
     user_name |-> "user", user_region |-> "region", parent_name |-> "franchisee",
     currency_exchange_rate |-> "currency_rate", total_amount |-> "paid_amount",
     transaction_date |-> "date_of_transaction"]

\* product_amount is assigned before the usd conversion (line 355)
transform_expense(df) ==
    LET d0 == RenameAll(df, ExpenseRename)
    IN  IF ~DatesParse(d0) THEN Raise("ValueError")
        ELSE
        LET d1 == [i \in 1..Len(d0) |->
                     Assign(d0[i], "product_amount", d0[i].paid_amount)]
            d2 == CommonSteps(d1)
            d3 == [i \in 1..Len(d2) |->
                     Assign(d2[i], "expenses", d2[i].paid_amount)]
            d4 == [i \in 1..Len(d3) |->
                     Assign(d3[i], "expenses_usd", d3[i].paid_amount_usd)]
            d5 == [i \in 1..Len(d4) |->
                     Assign(d4[i], "market_type", "Farmers' Hub")]
        IN  Returned(KeepLatest(d5, {"transaction_id"}))

MachinePurchaseRename ==
    [country_name |-> "country", business_category |-> "transaction_type",
     category |-> "product_category", user_name |-> "user",
     user_region |-> "region", parent_name |-> "franchisee",
     currency_exchange_rate |-> "currency_rate", total_amount |-> "product_amount",
     transaction_date |-> "date_of_transaction", supplier_id |-> "customer_id",
     supplier_name |-> "customer_name", supplier_mobile |-> "phone_number"]

transform_machine_purchase(df) ==
    LET d0 == RenameAll(df, MachinePurchaseRename)
    IN  IF ~DatesParse(d0) THEN Raise("ValueError")
        ELSE
        LET d1 == CommonSteps(d0)
            d2 == [i \in 1..Len(d1) |->
                     Assign(d1[i], "machine_purchase_usd", d1[i].paid_amount_usd)]
            d3 == [i \in 1..Len(d2) |->
                     Assign(d2[i], "machine_purchase", d2[i].paid_amount)]
            d4 == [i \in 1..Len(d3) |->
                     Assign(d3[i], "market_type", "Farmer")]
            d5 == [i \in 1..Len(d4) |->
                     Assign(d4[i], "transaction_type_level_2", "Machinery")]
        IN  Returned(KeepLatest(d5, {"transaction_id", "product_id"}))

(***************************************************************************)
(* extract_* and the connection check of the script's entry point          *)
(*                                                                         *)
(*     try:                                                                *)
(*         with engine.connect() as conn:                                  *)
(*             df = pd.read_sql_table(TABLE, conn, columns=[...])          *)
(*     except Exception as e:                                              *)
(*         logging.basicConfig(filename="./log", ...)                      *)
(*         logging.error                                                   *)
(*     return df                                                           *)
(*                                                                         *)
(* One call is a walk  connect -> read -> exit -> (except) -> return.      *)
(* engine.connect() and the table read may each fail at any call.          *)
(***************************************************************************)
MaxCalls == 3   \* calls made in one run

Unbound == [table |-> "<unbound>"]

ExtractFunctions ==
    {"extract_sale", "extract_purchase", "extract_machine_rent",
     "extract_processing", "extract_expense", "extract_machine_purchase"}

\* the table each extract function reads
TableOf(f) ==
    CASE f = "extract_sale" -> "gds_sale_transactions"
      [] f = "extract_purchase" -> "gds_purchase_transactions"
      [] f = "extract_machine_rent" -> "gds_machine_rent_transactions"
      [] f = "extract_processing" -> "gds_processing_transactions"
      [] f = "extract_expense" -> "gds_expense_transactions"
      [] f = "extract_machine_purchase" -> "gds_machine_purchase_transactions"

NoCalls ==
    /\ pc = "idle"
    /\ fn = "none"
    /\ conns = {}
    /\ df_local = Unbound
    /\ log = <<>>
    /\ handlers = FALSE
    /\ failure = "none"
    /\ outcome = "none"
    /\ calls = 0

\* a function is entered: its locals are fresh
Enter(f) ==
    /\ pc = "idle"
    /\ calls < MaxCalls
    /\ pc' = "connect"
    /\ fn' = f
    /\ df_local' = Unbound
    /\ failure' = "none"
    /\ outcome' = "running"
    /\ calls' = calls + 1
    /\ UNCHANGED <<conns, log, handlers>>
    /\ UNCHANGED <<etl_vars, anomaly_vars, loader_vars>>

call_extract_sale == Enter("extract_sale")
call_extract_purchase == Enter("extract_purchase")
call_extract_machine_rent == Enter("extract_machine_rent")
call_extract_processing == Enter("extract_processing")
call_extract_expense == Enter("extract_expense")
call_extract_machine_purchase == Enter("extract_machine_purchase")
\* the try block of the entry point (lines 454-461)
call_main_check == Enter("main")

\* engine.connect() returns a connection: the with block is entered
ConnectOk ==
    /\ pc = "connect"
    /\ conns' = conns \cup {[id |-> calls, by |-> fn]}
    /\ pc' = "read"
    /\ UNCHANGED <<fn, df_local, log, handlers, failure, outcome, calls>>
    /\ UNCHANGED <<etl_vars, anomaly_vars, loader_vars>>

\* engine.connect() raises (data source unreachable): no connection exists and
\* control goes to the except clause
ConnectFails ==
    /\ pc = "connect"
    /\ failure' = "connect"
    /\ pc' = "except"
    /\ UNCHANGED <<fn, conns, df_local, log, handlers, outcome, calls>>
    /\ UNCHANGED <<etl_vars, anomaly_vars, loader_vars>>

\* the body of the with block completes: df is bound to the table's frame (in
\* the entry point, the table names are printed)
ReadOk ==
    /\ pc = "read"
    /\ df_local' = IF fn = "main" THEN df_local ELSE [table |-> TableOf(fn)]
    /\ pc' = "exit"
    /\ UNCHANGED <<fn, conns, log, handlers, failure, outcome, calls>>
    /\ UNCHANGED <<etl_vars, anomaly_vars, loader_vars>>

\* the body of the with block raises
ReadFails ==
    /\ pc = "read"
    /\ failure' = "read"
    /\ pc' = "exit"
    /\ UNCHANGED <<fn, conns, df_local, log, handlers, outcome, calls>>
    /\ UNCHANGED <<etl_vars, anomaly_vars, loader_vars>>

\* Connection.__exit__ of the with statement: the connection is closed,
\* whether the body completed or raised
ConnsAfterExitLeaky(open, c, exc) == IF exc THEN open ELSE open \ {c}

ConnsAfterExit(open, c, exc) == open \ {c}

WithExit ==
    /\ pc = "exit"
    /\ conns' = ConnsAfterExit(conns, [id |-> calls, by |-> fn], failure = "read")
    /\ pc' = IF failure = "read" THEN "except" ELSE "return"
    /\ UNCHANGED <<fn, df_local, log, handlers, failure, outcome, calls>>
    /\ UNCHANGED <<etl_vars, anomaly_vars, loader_vars>>

\* what the except clause writes to the log: the extract functions evaluate
\* the name logging.error and do not call it; the entry point calls
\* logging.error(e)
LogAfterExcept(f, entries, what) ==
    IF f = "main" THEN Append(entries, [level |-> "ERROR", by |-> f, error |-> what])
    ELSE entries

\* the except clause: basicConfig gives the root logger its file handler
\* (once), then the logging statement
ExceptClause ==
    /\ pc = "except"
    /\ handlers' = TRUE
    /\ log' = LogAfterExcept(fn, log, failure)
    /\ pc' = "return"
    /\ UNCHANGED <<fn, conns, df_local, failure, outcome, calls>>
    /\ UNCHANGED <<etl_vars, anomaly_vars, loader_vars>>

\* return df: a local that was never bound raises UnboundLocalError.  The
\* entry point has no return and goes on.
Return ==
    /\ pc = "return"
    /\ outcome' = IF fn = "main" THEN "continued"
                  ELSE IF df_local = Unbound THEN "UnboundLocalError"
                  ELSE "returned"
    /\ pc' = "idle"
    /\ UNCHANGED <<fn, conns, df_local, log, handlers, failure, calls>>
    /\ UNCHANGED <<etl_vars, anomaly_vars, loader_vars>>

InitExtract ==
    /\ NoBatches
    /\ NoCalls
    /\ NoFrame
    /\ NoDirectory

NextExtract ==
    \/ call_extract_sale
    \/ call_extract_purchase
    \/ call_extract_machine_rent
    \/ call_extract_processing
    \/ call_extract_expense
    \/ call_extract_machine_purchase
    \/ call_main_check
    \/ ConnectOk
    \/ ConnectFails
    \/ ReadOk
    \/ ReadFails
    \/ WithExit
    \/ ExceptClause
    \/ Return

SpecExtract == InitExtract /\ [][NextExtract]_vars

\* C8: a connection opened by an extract call is open only inside that call's
\* with block; after the call has returned or failed none is left open, after
\* any sequence of calls and whether the read succeeded or raised.
C8_ConnectionScoped ==
    \A c \in conns :
        c.by \in ExtractFunctions =>
            /\ pc \in {"read", "exit"}
            /\ c.id = calls
            /\ c.by = fn

\* an extract call whose table read raised has ended
C8_ReadFailedCallEnded ==
    /\ pc = "idle"
    /\ fn \in ExtractFunctions
    /\ failure = "read"
    /\ conns = {}

\* C9: when connecting or reading fails inside an extract call, an error
\* entry is written to the log and the call does not fail towards its caller.
C9_FailureOnlyLogged ==
    (pc = "idle" /\ fn \in ExtractFunctions /\ failure # "none") =>
        /\ \E i \in 1..Len(log) : log[i].by = fn /\ log[i].level = "ERROR"
        /\ outcome = "returned"

(***************************************************************************)
(* One run of the normalizers.  A category that has not been handed a      *)
(* batch holds the empty batch.                                            *)
(***************************************************************************)
RECURSIVE TotalLen(_, _)
TotalLen(f, S) ==
    IF S = {} THEN 0
    ELSE LET c == CHOOSE x \in S : TRUE
         IN  Len(f[c]) + TotalLen(f, S \ {c})

Budget == MaxRecords - TotalLen(raw, Categories)

InitETL ==
    /\ NoBatches
    /\ NoCalls
    /\ NoFrame
    /\ NoDirectory

Normalize(cat, batch, res) ==
    /\ raw' = [raw EXCEPT ![cat] = batch]
    /\ canon' = [canon EXCEPT ![cat] = res.rows]
    /\ raised' = [raised EXCEPT ![cat] = res.raised]
    /\ UNCHANGED <<extract_vars, anomaly_vars, loader_vars>>

RunSale ==
    /\ raw["sale"] = <<>>
    /\ \E batch \in Batches("sale", Budget) :
          Normalize("sale", batch, transform_sale(batch))

RunPurchase ==
    /\ raw["purchase"] = <<>>
    /\ \E batch \in Batches("purchase", Budget) :
          Normalize("purchase", batch, transform_purchase(batch))

RunMachineRent ==
    /\ raw["machine_rent"] = <<>>
    /\ \E batch \in Batches("machine_rent", Budget) :
          Normalize("machine_rent", batch, transform_machine_rent(batch))

RunProcessing ==
    /\ raw["processing"] = <<>>
    /\ \E batch \in Batches("processing", Budget) :
          Normalize("processing", batch, transform_processing(batch))

RunExpense ==
    /\ raw["expense"] = <<>>
    /\ \E batch \in Batches("expense", Budget) :
          Normalize("expense", batch, transform_expense(batch))

RunMachinePurchase ==
    /\ raw["machine_purchase"] = <<>>
    /\ \E batch \in Batches("machine_purchase", Budget) :
          Normalize("machine_purchase", batch, transform_machine_purchase(batch))

NextETL ==
    \/ RunSale
    \/ RunPurchase
    \/ RunMachineRent
    \/ RunProcessing
    \/ RunExpense
    \/ RunMachinePurchase

SpecETL == InitETL /\ [][NextETL]_vars

(***************************************************************************)
(* The merged ledger: the six canonical frames concatenated.               *)
(***************************************************************************)
Ledger ==
    canon["sale"] \o canon["purchase"] \o canon["machine_rent"]
        \o canon["processing"] \o canon["expense"] \o canon["machine_purchase"]

IsExpenseRow(r) == "expenses" \in DOMAIN r

(***************************************************************************)
(* Properties of the normalizers                                           *)
(***************************************************************************)
SetMax(S) == CHOOSE x \in S : \A y \in S : y <= x

\* the dedup key the normalizers are specified to use
ClaimedKey(cat) ==
    IF cat = "expense" THEN {"transaction_id"} ELSE {"transaction_id", "product_id"}

\* versions of the input records of frame df that share r's key
VersionsOfKey(df, r, key) ==
    {df[j].version : j \in {m \in 1..Len(df) : SameKey(df[m], r, key)}}

\* C1: for each normalizer and every batch it returns a frame for, each dedup
\* key of the input is carried by exactly one output record, and that record
\* has the largest version among the input records with the key (also when
\* those records differ in country, franchisee or user_id).
C1_LatestVersionSurvives ==
    \A cat \in Categories :
        raised[cat] = "none" =>
            \A i \in 1..Len(raw[cat]) :
                LET key == ClaimedKey(cat)
                    out == {j \in 1..Len(canon[cat]) :
                               SameKey(canon[cat][j], raw[cat][i], key)}
                IN  /\ Cardinality(out) = 1
                    /\ \A j \in out :
                          canon[cat][j].version =
                              SetMax(VersionsOfKey(raw[cat], raw[cat][i], key))

\* two ledger rows carry the same ledger key: the transaction_id alone between
\* expense rows, (transaction_id, product_id) between the other rows
SameLedgerKey(a, b) ==
    IF IsExpenseRow(a) /\ IsExpenseRow(b)
    THEN a.transaction_id = b.transaction_id
    ELSE /\ ~IsExpenseRow(a) /\ ~IsExpenseRow(b)
         /\ a.transaction_id = b.transaction_id
         /\ a.product_id = b.product_id

\* versions of all input records, of any category, with ledger row r's key
InputVersionsOfLedgerKey(r) ==
    IF IsExpenseRow(r)
    THEN VersionsOfKey(raw["expense"], r, {"transaction_id"})
    ELSE UNION {VersionsOfKey(raw[c], r, {"transaction_id", "product_id"}) :
                  c \in Categories \ {"expense"}}

\* C2: in the union of the six outputs each key occurs at most once, on the
\* record with the largest version among all input records with that key,
\* whatever the six batches hold.
C2_LedgerOnePerKey ==
    (\A c \in Categories : raised[c] = "none") =>
        \A i \in 1..Len(Ledger) :
            /\ \A j \in 1..Len(Ledger) :
                  SameLedgerKey(Ledger[i], Ledger[j]) => i = j
            /\ Ledger[i].version = SetMax(InputVersionsOfLedgerKey(Ledger[i]))

HasZeroRate(df) == \E i \in 1..Len(df) : df[i].currency_exchange_rate = 0

AllDatesGood(df) == \A i \in 1..Len(df) : df[i].transaction_date = GoodDate

\* C5: a batch with a record whose currency_rate is 0 makes the normalizer
\* fail with a division error and return nothing, and no output record has an
\* infinite or undefined paid_amount_usd.
C5_ZeroRateRaises ==
    \A cat \in Categories :
        /\ (HasZeroRate(raw[cat]) /\ AllDatesGood(raw[cat])) =>
              (raised[cat] = "DivisionError" /\ canon[cat] = <<>>)
        /\ \A i \in 1..Len(canon[cat]) :
              canon[cat][i].paid_amount_usd \notin {NaN, Inf, NegInf}

\* the market tag each tagging category is specified to set
MarketTag(cat) ==
    IF cat \in {"machine_rent", "machine_purchase"} THEN "Farmer" ELSE "Farmers' Hub"

\* C6: every output record of machine_rent, machine_purchase, processing and
\* expense has the column market_type, holding the category's constant.
C6_MarketTypeSet ==
    \A cat \in {"machine_rent", "machine_purchase", "processing", "expense"} :
        \A i \in 1..Len(canon[cat]) :
            /\ "market_type" \in DOMAIN canon[cat][i]
            /\ canon[cat][i]["market_type"] = MarketTag(cat)

(***************************************************************************)
(* analysis.py: detect_anomaly                                             *)
(*                                                                         *)
(* Cells of the spreadsheet-fed frames are optional: Null is pandas' NaN    *)
(* for an empty cell, Some(v) a cell holding v.                            *)
(***************************************************************************)
Null == <<>>
Some(v) == <<v>>

LedgerRow(u, d, t, a) ==
    ("User" :> u) @@ ("Date of Transaction" :> d) @@ ("Transaction ID" :> t)
        @@ ("USD Net Amount" :> a)

KeyColumns == {"User", "Date of Transaction", "Transaction ID"}

\* groupby drops the rows with NaN in a key column (dropna=True, the default)
HasKey(r) == \A c \in KeyColumns : r[c] # Null

KeyOf(r) == <<r["User"][1], r["Date of Transaction"][1], r["Transaction ID"][1]>>

GroupKeys(df) == {KeyOf(df[i]) : i \in {j \in 1..Len(df) : HasKey(df[j])}}

GroupMembers(df, k) == {i \in 1..Len(df) : HasKey(df[i]) /\ KeyOf(df[i]) = k}

RECURSIVE SumOver(_, _)
SumOver(f, S) ==
    IF S = {} THEN 0
    ELSE LET i == CHOOSE x \in S : TRUE
         IN  f[i] + SumOver(f, S \ {i})

\* the number of rows of the group, NaN amounts included (what "size" gives)
AggSize(df, k) == Cardinality(GroupMembers(df, k))

\* agg "count": the group's rows whose USD Net Amount is not NaN
AggCount(df, k) ==
    Cardinality({i \in GroupMembers(df, k) : df[i]["USD Net Amount"] # Null})

\* agg "sum": NaN amounts are skipped; a group of NaN only sums to 0
AggSum(df, k) ==
    SumOver([i \in 1..Len(df) |->
                IF df[i]["USD Net Amount"] = Null THEN 0
                ELSE df[i]["USD Net Amount"][1]],
            GroupMembers(df, k))

KeyLess(a, b) ==
    \/ StrRank(a[1]) < StrRank(b[1])
    \/ a[1] = b[1] /\ a[2] < b[2]
    \/ a[1] = b[1] /\ a[2] = b[2] /\ a[3] < b[3]

\* the group keys in the sorted order groupby yields them
RECURSIVE SortedKeys(_)
SortedKeys(S) ==
    IF S = {} THEN <<>>
    ELSE LET m == CHOOSE x \in S : \A y \in S \ {x} : KeyLess(x, y)
         IN  <<m>> \o SortedKeys(S \ {m})

\* df.groupby([User, Date of Transaction, Transaction ID])["USD Net Amount"]
\*   .agg(["count", "sum"]).reset_index()
groupby_agg(df) ==
    LET keys == SortedKeys(GroupKeys(df))
    IN  [i \in 1..Len(keys) |->
            ("User" :> keys[i][1]) @@ ("Date of Transaction" :> keys[i][2])
              @@ ("Transaction ID" :> keys[i][3])
              @@ ("count" :> AggCount(df, keys[i]))
              @@ ("sum" :> AggSum(df, keys[i]))]

\* A z-score is kept exactly, as its sign and its square sq_num / sq_den;
\* nan when the standard deviation is 0 or undefined.
NaNScore == [nan |-> TRUE, sign |-> 0, sq_num |-> 0, sq_den |-> 1]

Sign(x) == IF x > 0 THEN 1 ELSE IF x < 0 THEN -1 ELSE 0

\* scipy.stats.zscore(x, ddof=1) at position i of the value sequence xs:
\*   (x_i - mean) / sqrt(sum((x_j - mean)^2) / (n - 1))
\* With S = sum(xs):  z^2 = (n - 1) (n x_i - S)^2 / sum((n x_j - S)^2).
\* n = 1 divides 0 by 0 inside the standard deviation; a constant xs divides
\* 0 by a standard deviation of 0: both give NaN.
zscore(xs, i) ==
    LET n == Len(xs)
        S == SumOver(xs, 1..n)
        dev == n * xs[i] - S
        ss == SumOver([j \in 1..n |-> (n * xs[j] - S) * (n * xs[j] - S)], 1..n)
    IN  IF n - 1 = 0 \/ ss = 0 THEN NaNScore
        ELSE [nan |-> FALSE, sign |-> Sign(dev),
              sq_num |-> (n - 1) * dev * dev, sq_den |-> ss]

\* the positions of the aggregates that enter the z-score of aggregate i when
\* the scores are taken over the whole frame
WholeFrame(agg, i) == 1..Len(agg)

\* df.groupby(["User"]): the aggregates of the same User as aggregate i
SameUser(agg, i) == {j \in 1..Len(agg) : agg[j]["User"] = agg[i]["User"]}

\* df.groupby(["User"])["sum"].transform(lambda x: zscore(x, ddof=1)) at row i
z_score(agg, i) ==
    LET grp == SameUser(agg, i)
        idx == SelectSeq([j \in 1..Len(agg) |-> j], LAMBDA j : j \in grp)
        xs == [k \in 1..Len(idx) |-> agg[idx[k]]["sum"]]
        at == CHOOSE k \in 1..Len(idx) : idx[k] = i
    IN  zscore(xs, at)

Threshold == 3

\* abs(z) > 1
AbsExceedsOne(z) == ~z.nan /\ z.sq_num > z.sq_den

\* abs(z) > 3; a comparison with NaN is False
AbsExceeds(z) == ~z.nan /\ z.sq_num > Threshold * Threshold * z.sq_den

detect_anomaly(df) ==
    LET agg == groupby_agg(df)
        scored == [i \in 1..Len(agg) |-> ("z_score" :> z_score(agg, i)) @@ agg[i]]
    IN  SelectSeq(scored, LAMBDA r : AbsExceeds(r["z_score"]))

(***************************************************************************)
(* Frames given to detect_anomaly: a base frame and up to MaxExtra more     *)
(* rows.                                                                   *)
(***************************************************************************)
MaxBase == 10    \* aggregates of amount 0 in a base frame
MaxExtra == 1    \* rows added to a base frame

\* one row per transaction of user u, with the given amounts
BaseOf(u, amounts) ==
    [i \in 1..Len(amounts) |-> LedgerRow(Some(u), Some(1), Some(i), Some(amounts[i]))]

NewTid == MaxBase + 1

\* numbers of amount-0 aggregates of the base frames
BaseSizes == {0, 1, MaxBase - 1, MaxBase}

Bases ==
    {BaseOf("U", [i \in 1..k |-> 0]) \o tail :
        k \in BaseSizes,
        tail \in {<<>>, <<LedgerRow(Some("U"), Some(1), Some(NewTid), Some(1))>>}}
    \cup {BaseOf("U", <<10, 10, 10, 10, 1000>>), BaseOf("V", <<10, 11, 9, 10>>)}

ExtraRows ==
    {LedgerRow(u, d, t, a) :
        u \in {Null, Some("U"), Some("V")},
        d \in {Null, Some(1), Some(2)},
        t \in {Null, Some(1), Some(NewTid)},
        a \in {Null, Some(-1), Some(0), Some(1)}}

InitAnomaly ==
    /\ NoBatches
    /\ NoCalls
    /\ NoDirectory
    /\ frame \in Bases
    /\ extras = 0
    /\ detected = FALSE
    /\ anomaly = <<>>

AddRow ==
    /\ ~detected
    /\ extras < MaxExtra
    /\ \E r \in ExtraRows : frame' = Append(frame, r)
    /\ extras' = extras + 1
    /\ UNCHANGED <<detected, anomaly>>
    /\ UNCHANGED <<etl_vars, extract_vars, loader_vars>>

DetectAnomaly ==
    /\ ~detected
    /\ anomaly' = detect_anomaly(frame)
    /\ detected' = TRUE
    /\ UNCHANGED <<frame, extras>>
    /\ UNCHANGED <<etl_vars, extract_vars, loader_vars>>

NextAnomaly ==
    \/ AddRow
    \/ DetectAnomaly

SpecAnomaly == InitAnomaly /\ [][NextAnomaly]_vars

(***************************************************************************)
(* Properties of detect_anomaly                                            *)
(***************************************************************************)
Users == {"U", "V"}

\* the returned rows as tuples (User, Date, Transaction ID, count, sum)
Returned5(out) ==
    {<<out[i]["User"], out[i]["Date of Transaction"], out[i]["Transaction ID"],
       out[i]["count"], out[i]["sum"]>> : i \in 1..Len(out)}

Amount(r) == IF r["USD Net Amount"] = Null THEN 0 ELSE r["USD Net Amount"][1]

\* the same tuples with the key columns as optional cells
ReturnedCells(out) ==
    {<<Some(t[1]), Some(t[2]), Some(t[3]), t[4], t[5]>> : t \in Returned5(out)}

\* Of a set of aggregates (tuples as above), those whose sample z-score among
\* the aggregates of the same user exceeds 3 in magnitude.  With n values of
\* total S and total of squares Q, |z| > 3 reads
\*     (n - 1) (n x - S)^2  >  9 n (n Q - S^2).
Outliers(aggs) ==
    {a \in aggs :
        LET same == {b \in aggs : b[1] = a[1]}
            n == Cardinality(same)
            S == SumOver([b \in same |-> b[5]], same)
            Q == SumOver([b \in same |-> b[5] * b[5]], same)
        IN  /\ n >= 2
            /\ (n - 1) * (n * a[5] - S) * (n * a[5] - S) > 9 * n * (n * Q - S * S)}

\* one aggregate per distinct key of the input, counting every row
AggregatesOfAllRows(df) ==
    {<<df[i]["User"], df[i]["Date of Transaction"], df[i]["Transaction ID"],
       Cardinality({j \in 1..Len(df) : \A c \in KeyColumns : df[j][c] = df[i][c]}),
       SumOver([j \in 1..Len(df) |-> Amount(df[j])],
               {j \in 1..Len(df) : \A c \in KeyColumns : df[j][c] = df[i][c]})>> :
        i \in 1..Len(df)}

\* one aggregate per distinct key among the rows whose key cells are all
\* present, counting the rows whose amount is present
AggregatesOfKeyedRows(df) ==
    {<<df[i]["User"][1], df[i]["Date of Transaction"][1], df[i]["Transaction ID"][1],
       Cardinality({j \in 1..Len(df) :
                      /\ \A c \in KeyColumns : df[j][c] = df[i][c]
                      /\ df[j]["USD Net Amount"] # Null}),
       SumOver([j \in 1..Len(df) |-> Amount(df[j])],
               {j \in 1..Len(df) : \A c \in KeyColumns : df[j][c] = df[i][c]})>> :
        i \in {m \in 1..Len(df) : \A c \in KeyColumns : df[m][c] # Null}}

\* C3 as stated: the rows returned are exactly the aggregates, one per
\* distinct (User, Date of Transaction, Transaction ID) of the input with
\* count = number of input rows of the group and sum = their total amount,
\* whose per-user sample z-score exceeds 3 in magnitude.
C3_ExactlyTheOutliersOfAllRows ==
    detected =>
        /\ ReturnedCells(anomaly) = Outliers(AggregatesOfAllRows(frame))
        /\ Cardinality(Returned5(anomaly)) = Len(anomaly)

\* C3 amended: the same, with one aggregate per distinct key among the rows
\* whose three key cells are all non-null, and count = the number of rows of
\* the group whose USD Net Amount is non-null (null amounts add 0 to sum).
C3_ExactlyTheOutliersOfKeyedRows ==
    detected =>
        /\ Returned5(anomaly) = Outliers(AggregatesOfKeyedRows(frame))
        /\ Cardinality(Returned5(anomaly)) = Len(anomaly)

\* a row is returned whose group holds a row with a null amount
C3_OutlierWithNullAmountReturned ==
    /\ detected
    /\ \E i \in 1..Len(anomaly) :
          anomaly[i]["count"] <
              Cardinality(GroupMembers(frame,
                  <<anomaly[i]["User"], anomaly[i]["Date of Transaction"],
                    anomaly[i]["Transaction ID"]>>))

\* the sums of user u's aggregates, in the order of the aggregated frame
SumsOf(u) ==
    LET agg == groupby_agg(frame)
        mine == SelectSeq(agg, LAMBDA r : r["User"] = u)
    IN  [i \in 1..Len(mine) |-> mine[i]["sum"]]

Occurrences(xs, v) == Cardinality({i \in 1..Len(xs) : xs[i] = v})

\* user U has five aggregates, of sums 10, 10, 10, 10 and 1000
FiveSumsOfU ==
    /\ Len(SumsOf("U")) = 5
    /\ Occurrences(SumsOf("U"), 10) = 4
    /\ Occurrences(SumsOf("U"), 1000) = 1

RowsOf(u) == SelectSeq(anomaly, LAMBDA r : r["User"] = u)

\* the z-score of U's aggregate of sum 1000
ScoreOfThousand ==
    LET xs == SumsOf("U")
    IN  zscore(xs, CHOOSE i \in 1..Len(xs) : xs[i] = 1000)

\* C4 as stated: for U with sums 10, 10, 10, 10, 1000 the z-score of the 1000
\* aggregate exceeds 3 and that aggregate is the only row returned for U.
C4_ThousandIsReturned ==
    (detected /\ FiveSumsOfU) =>
        /\ ScoreOfThousand.sq_num > 9 * ScoreOfThousand.sq_den
        /\ Len(RowsOf("U")) = 1
        /\ RowsOf("U")[1]["sum"] = 1000

\* C4 amended: for U with sums 10, 10, 10, 10, 1000 the z-score of the 1000
\* aggregate is 4 / sqrt(5) (about 1.79), which does not exceed 3, and no row
\* is returned for U.
C4_ThousandIsNotReturned ==
    (detected /\ FiveSumsOfU) =>
        /\ ~ScoreOfThousand.nan
        /\ ScoreOfThousand.sign = 1
        /\ 5 * ScoreOfThousand.sq_num = 16 * ScoreOfThousand.sq_den
        /\ RowsOf("U") = <<>>

C4_FiveSumsDetected == detected /\ FiveSumsOfU

WithoutUser(df, u) == SelectSeq(df, LAMBDA r : r["User"] # Some(u))

HasOneAggregate(u) == Len(SumsOf(u)) = 1

\* C7: detect_anomaly returns a frame (it does not fail), in which a user with
\* exactly one aggregate has no row, and the rows of the other users are the
\* ones returned for the input without that user's rows.
C7_SingleAggregateUserExcluded ==
    detected =>
        \A u \in Users :
            HasOneAggregate(u) =>
                /\ RowsOf(u) = <<>>
                /\ SelectSeq(anomaly, LAMBDA r : r["User"] # u)
                      = detect_anomaly(WithoutUser(frame, u))

\* a user has exactly one aggregate while a row of another user is returned
C7_SingleBesideOutlier ==
    /\ detected
    /\ anomaly # <<>>
    /\ \E u \in Users : HasOneAggregate(u)

\* the number of aggregates of user u: the distinct (Date of Transaction,
\* Transaction ID) among u's rows of the input whose key cells are present
AggregatesOfUser(u) ==
    Cardinality({a \in AggregatesOfKeyedRows(frame) : a[1] = u})

\* C11: detect_anomaly returns no row for a user who has 10 or fewer
\* aggregates, whatever their sums are: every row returned belongs to a user
\* with at least 11 aggregates.
C11_NoRowBelowElevenAggregates ==
    detected =>
        /\ \A u \in Users : AggregatesOfUser(u) <= 10 => RowsOf(u) = <<>>
        /\ \A i \in 1..Len(anomaly) : AggregatesOfUser(anomaly[i]["User"]) >= 11

\* detect_anomaly has run on a frame in which a user has 10 aggregates, one of
\* them at the largest score 10 values allow, |z| = 9 / sqrt(10)
C11_TenAggregatesAtTheBound ==
    /\ detected
    /\ \E u \in Users :
          /\ AggregatesOfUser(u) = 10
          /\ Len(SumsOf(u)) = 10
          /\ \E i \in 1..10 :
                /\ ~zscore(SumsOf(u), i).nan
                /\ 10 * zscore(SumsOf(u), i).sq_num = 81 * zscore(SumsOf(u), i).sq_den

(***************************************************************************)
(* analysis.py: read_files                                                 *)
(*                                                                         *)
(* Here a frame is [columns, rows]: the column names in order and the      *)
(* rows, each a function on the columns.  A sheet without rows still has   *)
(* its header's columns.                                                   *)
(***************************************************************************)
MaxFiles == 2    \* files in the directory

Range(q) == {q[i] : i \in 1..Len(q)}

\* pd.DataFrame()
DataFrame == [columns |-> <<>>, rows |-> <<>>]

\* a row reindexed to the columns cols: NaN where the row has no such column
Reindex(r, cols) ==
    [c \in Range(cols) |-> IF c \in DOMAIN r THEN r[c] ELSE Null]

\* df.append(other) whose result is dropped (df is left as it was)
append_discarded(df, other) == df

\* df.append(other): the columns of df followed by the new columns of other;
\* the rows of df, then the rows of other, NaN in the columns a row lacked
append(df, other) ==
    LET cols == df.columns \o
                SelectSeq(other.columns, LAMBDA c : c \notin Range(df.columns))
    IN  [columns |-> cols,
         rows |-> [i \in 1..Len(df.rows) |-> Reindex(df.rows[i], cols)] \o
                  [i \in 1..Len(other.rows) |-> Reindex(other.rows[i], cols)]]

\* pd.read_excel(file, engine="openpyxl"): the sheet of the file
read_excel(file) == file

ColumnChoices ==
    {<<"User", "USD Net Amount">>, <<"User", "Transaction ID">>, <<"Note">>}
RowCounts == {0, 3, 5}

\* a sheet of n rows; with blank, the first cell of its first row is empty
Sheet(cols, n, blank) ==
    [columns |-> cols,
     rows |-> [i \in 1..n |->
                 [c \in Range(cols) |->
                     IF blank /\ i = 1 /\ c = cols[1] THEN Null ELSE Some(i)]]]

Sheets ==
    {Sheet(cols, n, FALSE) : cols \in ColumnChoices, n \in RowCounts}
    \cup {Sheet(cols, n, TRUE) : cols \in ColumnChoices, n \in RowCounts \ {0}}

InitLoader ==
    /\ NoBatches
    /\ NoCalls
    /\ NoFrame
    /\ NoDirectory

\* a spreadsheet file is put into the directory before read_files is called
PutFile ==
    /\ lpc = "setup"
    /\ Len(files) < MaxFiles
    /\ \E f \in Sheets : files' = Append(files, f)
    /\ UNCHANGED <<unread, order, loaded, lpc>>
    /\ UNCHANGED <<etl_vars, extract_vars, anomaly_vars>>

\* lines 20-22: the empty frame, and the iterator over the directory
read_files_begin ==
    /\ lpc = "setup"
    /\ loaded' = DataFrame
    /\ unread' = 1..Len(files)
    /\ order' = <<>>
    /\ lpc' = "loop"
    /\ UNCHANGED files
    /\ UNCHANGED <<etl_vars, extract_vars, anomaly_vars>>

\* lines 24-25: path.iterdir() yields the files in arbitrary order
read_files_iterate ==
    /\ lpc = "loop"
    /\ \E i \in unread :
          /\ loaded' = append(loaded, read_excel(files[i]))
          /\ unread' = unread \ {i}
          /\ order' = Append(order, i)
    /\ UNCHANGED <<files, lpc>>
    /\ UNCHANGED <<etl_vars, extract_vars, anomaly_vars>>

\* line 27
read_files_return ==
    /\ lpc = "loop"
    /\ unread = {}
    /\ lpc' = "done"
    /\ UNCHANGED <<files, unread, order, loaded>>
    /\ UNCHANGED <<etl_vars, extract_vars, anomaly_vars>>

NextLoader ==
    \/ PutFile
    \/ read_files_begin
    \/ read_files_iterate
    \/ read_files_return

SpecLoader == InitLoader /\ [][NextLoader]_vars

(***************************************************************************)
(* Properties of read_files                                                *)
(***************************************************************************)
RowsOfFiles == SumOver([i \in 1..Len(files) |-> Len(files[i].rows)], 1..Len(files))

ColumnsOfFiles == UNION {Range(files[i].columns) : i \in 1..Len(files)}

\* rows of the result that precede the rows of the k-th file read
Offset(k) == SumOver([m \in 1..Len(order) |-> Len(files[order[m]].rows)], 1..(k - 1))

\* C10 as stated: the result has the files' rows, the union of their
\* columns, and a cell is null exactly where the row's file lacked the column,
\* for any number of files and any order of iteration.
C10_NullExactlyWhereColumnLacked ==
    lpc = "done" =>
        /\ Len(loaded.rows) = RowsOfFiles
        /\ Range(loaded.columns) = ColumnsOfFiles
        /\ \A k \in 1..Len(order) :
              \A j \in 1..Len(files[order[k]].rows) :
                 \A c \in ColumnsOfFiles :
                    (loaded.rows[Offset(k) + j][c] = Null)
                        <=> (c \notin Range(files[order[k]].columns))

\* C10 amended: the result has the files' rows, the union of their columns,
\* and each cell is null where the row's file lacked the column and the
\* file's own cell otherwise (null where the sheet's cell is empty).
C10_RowsOfAllFilesOverAllColumns ==
    lpc = "done" =>
        /\ Len(loaded.rows) = RowsOfFiles
        /\ Range(loaded.columns) = ColumnsOfFiles
        /\ \A k \in 1..Len(order) :
              \A j \in 1..Len(files[order[k]].rows) :
                 /\ DOMAIN loaded.rows[Offset(k) + j] = ColumnsOfFiles
                 /\ \A c \in ColumnsOfFiles :
                       loaded.rows[Offset(k) + j][c] =
                           IF c \in Range(files[order[k]].columns)
                           THEN files[order[k]].rows[j][c]
                           ELSE Null

\* two files of 3 and 5 rows with different columns, one with an empty cell,
\* have been read
C10_TwoFilesRead ==
    /\ lpc = "done"
    /\ Len(files) = 2
    /\ {Len(files[1].rows), Len(files[2].rows)} = {3, 5}
    /\ Range(files[1].columns) # Range(files[2].columns)
    /\ \E j \in 1..Len(loaded.rows) :
          \E c \in Range(files[order[1]].columns) \cap Range(files[order[2]].columns) :
              loaded.rows[j][c] = Null
    /\ Len(loaded.rows) = 8

====
